---------------------------- MODULE Spec2Model ----------------------------
(***************************************************************************)
(* A model of the DuckDuckGo MCP server (src/src/index.ts): the sliding-   *)
(* window RateLimiter, the search and fetch_content tool handlers with     *)
(* their Durable Object storage, the HTMLRewriter handlers that parse the  *)
(* search result page, and the extraction of the text of a fetched page.   *)
(*                                                                         *)
(* Strings are modelled as sequences of tokens: a link is a sequence of    *)
(* URL pieces ("uddg=", "&", "y.js", ...), a title or a snippet a sequence *)
(* of characters, " " standing for any white space.                        *)
(***************************************************************************)
EXTENDS Integers, Sequences, FiniteSets, TLC

VARIABLES
    now,            \* Date.now(), in ms
    requests,       \* RateLimiter.requests of the two limiters
    storage,        \* the Durable Object storage: key -> saved list
    loadPending,    \* the constructor's storage.get(...).then(...) not yet run
    inv,            \* the tool invocations in flight, one record per slot
    restarts,       \* how often the Durable Object was constructed again
    calls,          \* the number of tool calls received so far
    html,           \* the document handed to the HTMLRewriter
    max_results,    \* the max_results argument of the parse
    evIdx,          \* the number of rewriter events already delivered
    ps,             \* the closure state of the rewriter handlers
    output,         \* what performDuckDuckGoSearch hands to the caller, as lines
    webPage,        \* the web page handed to the content extractor
    xIdx,           \* the number of extractor events already delivered
    xs,             \* the state of performWebContentFetch's extraction
    removeHidesText, \* whether the platform keeps the text of a removed
                    \* element from the other handlers
    parsers,        \* the calls of performDuckDuckGoSearch that parse a
                    \* document, each with its own closure
    parsed          \* what the parses that ended have returned, in order

sysVars == <<now, requests, storage, loadPending, inv, restarts, calls>>
parseVars == <<html, max_results, evIdx, ps, output>>
extractVars == <<webPage, xIdx, xs, removeHidesText>>
searchesVars == <<parsers, parsed>>
vars == <<now, requests, storage, loadPending, inv, restarts, calls,
          html, max_results, evIdx, ps, output,
          webPage, xIdx, xs, removeHidesText, parsers, parsed>>

----------------------------------------------------------------------------
(* Bounds of the model *)

\* The clock advances in steps of WindowMs \div TicksPerWindow.
TicksPerWindow == 2
\* The clock stops after this many steps.
MaxTicks == 3
\* The number of tool invocations that can be in flight together.
MaxTasks == 2
\* The number of tool calls of a run.
MaxCalls == 3
\* new RateLimiter(n): the model's search and fetch limits (30 and 20 in
\* the deployment, src/src/index.ts:20-21), scaled down, search the larger.
SearchLimit == 2
ContentLimit == 1
\* How often the Durable Object may be evicted and constructed again.
MaxRestarts == 1
\* The number of result containers of a document, and the largest max_results.
MaxContainers == 3
MaxK == 3
\* The number of top-level elements of a web page.
MaxNodes == 2
\* The number of searches that parse together, and of parses of a run.
MaxParsers == 2
MaxParses == 3

----------------------------------------------------------------------------
(* Program constants *)

WindowMs == 60000
RequestTimeoutMs == 30000
MAX_CONTENT_LENGTH == 8000

----------------------------------------------------------------------------
(* Strings *)

\* The white space of trim() and of \\s.
IsWhite(c) == c \in {" ", "\t", "\r", "\n"}

\* String.prototype.trim on a sequence of characters.
RECURSIVE TrimLeft(_)
TrimLeft(s) ==
    IF s # <<>> /\ IsWhite(Head(s)) THEN TrimLeft(Tail(s)) ELSE s

RECURSIVE TrimRight(_)
TrimRight(s) ==
    IF s # <<>> /\ IsWhite(s[Len(s)]) THEN TrimRight(SubSeq(s, 1, Len(s) - 1)) ELSE s

trim(s) == TrimRight(TrimLeft(s))

\* String.prototype.includes for one token.
includes(s, tok) == \E i \in 1..Len(s) : s[i] = tok

\* The index of the first occurrence of tok in s, Len(s) + 1 when there is none.
RECURSIVE IndexOf(_, _)
IndexOf(s, tok) ==
    IF s = <<>> THEN 1
    ELSE IF Head(s) = tok THEN 1
    ELSE 1 + IndexOf(Tail(s), tok)

\* s.split(tok)[0]
splitFirst(s, tok) == SubSeq(s, 1, IndexOf(s, tok) - 1)

\* s.split(tok)[1], for an s that holds tok
splitSecond(s, tok) ==
    splitFirst(SubSeq(s, IndexOf(s, tok) + 1, Len(s)), tok)

\* The tokens links are made of.  "y%2Ejs" and "%26" are the escaped forms of
\* "y.js" and "&"; "%E0%A4%A" is a malformed escape sequence.
LinkTokens ==
    {"//duckduckgo.com/l/?", "uddg=", "&", "rut=1", "https://a.example/",
     "https%3A%2F%2Fb.example%2F", "https://b.example/", "y.js", "y%2Ejs",
     "%26", "%E0%A4%A"}

\* decodeURIComponent throws URIError on a malformed escape sequence.
decodeThrows(s) == includes(s, "%E0%A4%A")

decodeToken(tok) ==
    CASE tok = "y%2Ejs" -> "y.js"
      [] tok = "%26" -> "&"
      [] tok = "https%3A%2F%2Fb.example%2F" -> "https://b.example/"
      [] OTHER -> tok

decodeURIComponent(s) == [i \in 1..Len(s) |-> decodeToken(s[i])]

\* currentLink.startsWith("//duckduckgo.com/l/?uddg=")
startsWithRedirect(s) ==
    Len(s) >= 2 /\ s[1] = "//duckduckgo.com/l/?" /\ s[2] = "uddg="

----------------------------------------------------------------------------
(* The search result page and the events the HTMLRewriter delivers *)

\* One ".result" container: whether it holds a ".result__title a" anchor, the
\* anchor's href and text, whether it holds a ".result__snippet" and its text.
Container(anchor, href, title, snip, snippet) ==
    [anchor |-> anchor, href |-> href, title |-> title,
     snip |-> snip, snippet |-> snippet]

Plain == Container(TRUE, <<"https://a.example/">>, <<"A">>, TRUE, <<"s">>)
Wrapped ==
    Container(TRUE,
              <<"//duckduckgo.com/l/?", "uddg=", "https%3A%2F%2Fb.example%2F",
                "&", "rut=1">>,
              <<" ", "B", " ">>, TRUE, <<"t", " ">>)
AdRaw ==
    Container(TRUE, <<"https://a.example/", "y.js">>, <<"C">>, TRUE, <<"u">>)
AdWrapped ==
    Container(TRUE,
              <<"//duckduckgo.com/l/?", "uddg=", "https://a.example/", "y%2Ejs">>,
              <<"D">>, TRUE, <<"v">>)
BadEscape ==
    Container(TRUE, <<"//duckduckgo.com/l/?", "uddg=", "%E0%A4%A">>,
              <<"E">>, TRUE, <<"w">>)
NoAnchor == Container(FALSE, <<>>, <<>>, TRUE, <<"x">>)
NoSnippet == Container(TRUE, <<"https://a.example/">>, <<"F">>, FALSE, <<>>)
BlankTitle == Container(TRUE, <<"https://a.example/">>, <<" ">>, TRUE, <<"y">>)

Containers ==
    {Plain, Wrapped, AdRaw, AdWrapped, BadEscape, NoAnchor, NoSnippet, BlankTitle}

RECURSIVE SeqsUpTo(_, _)
SeqsUpTo(S, n) ==
    IF n = 0 THEN {<<>>}
    ELSE LET shorter == SeqsUpTo(S, n - 1)
         IN  shorter \cup {Append(s, x) : s \in shorter, x \in S}

Documents == SeqsUpTo(Containers, MaxContainers)

Event(type, href, text) == [type |-> type, href |-> href, text |-> text]

\* The events of one container, in document order.  The end callbacks run
\* at the element's end tag, which is how the source uses them.
ContainerEvents(c) ==
    <<Event("result", <<>>, <<>>)>>
    \o (IF c.anchor
        THEN <<Event("title_a", c.href, <<>>), Event("title_text", <<>>, c.title),
               Event("title_end", <<>>, <<>>)>>
        ELSE <<>>)
    \o (IF c.snip
        THEN <<Event("snippet", <<>>, <<>>), Event("snippet_text", <<>>, c.snippet),
               Event("snippet_end", <<>>, <<>>)>>
        ELSE <<>>)
    \o <<Event("result_end", <<>>, <<>>)>>

RECURSIVE Events(_)
Events(d) ==
    IF d = <<>> THEN <<>> ELSE ContainerEvents(Head(d)) \o Events(Tail(d))

----------------------------------------------------------------------------
(* performDuckDuckGoSearch: the HTMLRewriter handlers *)

SearchResult(title, link, snippet, position) ==
    [title |-> title, link |-> link, snippet |-> snippet, position |-> position]

\* The closure variables of the handlers; threw: a handler threw.
ParserInit ==
    [results |-> <<>>, currentTitle |-> <<>>, currentLink |-> <<>>,
     currentSnippet |-> <<>>, inTitleLink |-> FALSE, inSnippet |-> FALSE,
     positionCounter |-> 0, threw |-> FALSE]

\* .on(".result", { element })
\* The element handler that counts the container and leaves the fields of
\* the previous one in place.
OnResultElementNoReset(s) == [s EXCEPT !.positionCounter = @ + 1]

OnResultElement(s) ==
    [s EXCEPT !.positionCounter = @ + 1, !.currentTitle = <<>>,
              !.currentLink = <<>>, !.currentSnippet = <<>>]

\* The position a pushed result gets.
ResultPosition(s) == s.positionCounter

\* The link after the uddg unwrapping of the end handler.
UnwrappedLink(link) ==
    IF startsWithRedirect(link) /\ includes(link, "uddg=")
    THEN decodeURIComponent(splitFirst(splitSecond(link, "uddg="), "&"))
    ELSE link

\* Whether the unwrapping of the end handler throws.
UnwrapThrows(link) ==
    /\ startsWithRedirect(link)
    /\ includes(link, "uddg=")
    /\ decodeThrows(splitFirst(splitSecond(link, "uddg="), "&"))

\* The push condition without its results.length < max_results.
PushConditionNoCap(s, link, k) ==
    /\ link # <<>>
    /\ ~includes(link, "y.js")
    /\ s.currentTitle # <<>>
    /\ s.currentSnippet # <<>>

\* The push condition with the ad test made on the href as the anchor had it.
PushConditionRawHref(s, link, k) ==
    /\ link # <<>>
    /\ ~includes(s.currentLink, "y.js")
    /\ s.currentTitle # <<>>
    /\ s.currentSnippet # <<>>
    /\ Len(s.results) < k

\* The condition under which the end handler pushes a result.
\* The test without its snippet conjunct.
PushConditionAnySnippet(s, link, k) ==
    /\ link # <<>>
    /\ ~includes(link, "y.js")
    /\ s.currentTitle # <<>>
    /\ Len(s.results) < k

PushCondition(s, link, k) ==
    /\ link # <<>>
    /\ ~includes(link, "y.js")
    /\ s.currentTitle # <<>>
    /\ s.currentSnippet # <<>>
    /\ Len(s.results) < k

\* .on(".result", { end })
OnResultEnd(s, k) ==
    IF UnwrapThrows(s.currentLink) THEN [s EXCEPT !.threw = TRUE]
    ELSE LET link == UnwrappedLink(s.currentLink)
         IN  IF PushCondition(s, link, k)
             THEN [s EXCEPT !.currentLink = link,
                            !.results = Append(@,
                                SearchResult(trim(s.currentTitle), link,
                                             trim(s.currentSnippet),
                                             ResultPosition(s)))]
             ELSE [s EXCEPT !.currentLink = link]

\* .on(".result__title a", { element, text, end })
OnTitleElement(s, href) == [s EXCEPT !.inTitleLink = TRUE, !.currentLink = href]

OnTitleText(s, text) ==
    IF s.inTitleLink THEN [s EXCEPT !.currentTitle = @ \o text] ELSE s

OnTitleEnd(s) == [s EXCEPT !.inTitleLink = FALSE]

\* .on(".result__snippet", { element, text, end })
OnSnippetElement(s) == [s EXCEPT !.inSnippet = TRUE]

OnSnippetText(s, text) ==
    IF s.inSnippet THEN [s EXCEPT !.currentSnippet = @ \o text] ELSE s

OnSnippetEnd(s) == [s EXCEPT !.inSnippet = FALSE]

\* The handler an event runs.
Dispatch(s, e, k) ==
    CASE e.type = "result" -> OnResultElement(s)
      [] e.type = "title_a" -> OnTitleElement(s, e.href)
      [] e.type = "title_text" -> OnTitleText(s, e.text)
      [] e.type = "title_end" -> OnTitleEnd(s)
      [] e.type = "snippet" -> OnSnippetElement(s)
      [] e.type = "snippet_text" -> OnSnippetText(s, e.text)
      [] e.type = "snippet_end" -> OnSnippetEnd(s)
      [] e.type = "result_end" -> OnResultEnd(s, k)

\* rewriter.transform(new Response(html)).arrayBuffer(): every event in
\* order, up to the first handler that throws.
RECURSIVE Transform(_, _, _)
Transform(s, evs, k) ==
    IF evs = <<>> \/ s.threw THEN s
    ELSE Transform(Dispatch(s, Head(evs), k), Tail(evs), k)

----------------------------------------------------------------------------
(* The parse of one document, event by event *)

ScanEnded == ps.threw \/ evIdx = Len(Events(html))

NextEvent == Events(html)[evIdx + 1]

Deliver(type) ==
    /\ ~ScanEnded
    /\ NextEvent.type = type
    /\ ps' = Dispatch(ps, NextEvent, max_results)
    /\ evIdx' = evIdx + 1
    /\ UNCHANGED <<html, max_results, output, sysVars, extractVars, searchesVars>>

ResultElement == Deliver("result")
TitleElement == Deliver("title_a")
TitleText == Deliver("title_text")
TitleEnd == Deliver("title_end")
SnippetElement == Deliver("snippet")
SnippetText == Deliver("snippet_text")
SnippetEnd == Deliver("snippet_end")
ResultEnd == Deliver("result_end")


----------------------------------------------------------------------------
(* formatSearchResultsForLLM: the output as its lines, before join("\n") *)

Line(kind, n, text) == [kind |-> kind, n |-> n, text |-> text]

RECURSIVE ResultBlocks(_)
ResultBlocks(results) ==
    IF results = <<>> THEN <<>>
    ELSE LET r == Head(results)
         IN  <<Line("title", r.position, r.title), Line("url", 0, r.link),
               Line("summary", 0, r.snippet), Line("blank", 0, <<>>)>>
             \o ResultBlocks(Tail(results))

\* The formatter without its test for the empty list.
formatAlwaysHeader(results) ==
    <<Line("found", Len(results), <<>>)>> \o ResultBlocks(results)

formatSearchResultsForLLM(results) ==
    IF Len(results) = 0 THEN <<Line("no_results", 0, <<>>)>>
    ELSE <<Line("found", Len(results), <<>>)>> \o ResultBlocks(results)

\* The rewriter is through the document: the search handler formats the
\* results for the caller.
FormatResults ==
    /\ ScanEnded
    /\ ~ps.threw
    /\ output = <<>>
    /\ output' = formatSearchResultsForLLM(ps.results)
    /\ UNCHANGED <<html, max_results, evIdx, ps, sysVars, extractVars, searchesVars>>

\* A rewriter handler has thrown: the catch blocks turn the exception into
\* the error text.
SearchCatch ==
    /\ ScanEnded
    /\ ps.threw
    /\ output = <<>>
    /\ output' = <<Line("error", 0, <<>>)>>
    /\ UNCHANGED <<html, max_results, evIdx, ps, sysVars, extractVars, searchesVars>>

----------------------------------------------------------------------------
(* RateLimiter *)

Limiters == {"search", "content"}

\* constructor(requestsPerMinute), as MyMCP's constructor calls it
requestsPerMinute == [l \in Limiters |-> IF l = "search" THEN SearchLimit ELSE ContentLimit]

\* this.requests.filter(reqTime => now - reqTime < 60000)
InWindow(t, reqTime) == t - reqTime < WindowMs
Purge(reqs, t) == SelectSeq(reqs, LAMBDA reqTime : InWindow(t, reqTime))

\* The delay counted from the newest timestamp instead of the first.
TimeToWaitNewest(reqs, t) == WindowMs - (t - reqs[Len(reqs)])

\* const timeToWait = 60000 - (now - this.requests[0])
TimeToWait(reqs, t) == WindowMs - (t - reqs[1])

\* The test with > for >=.
MustWaitOverLimit(reqs, limit, t) ==
    /\ Len(Purge(reqs, t)) > limit
    /\ TimeToWait(Purge(reqs, t), t) > 0

\* Whether acquire() awaits the timer: the list, purged, is at the limit.
MustWait(reqs, limit, t) ==
    /\ Len(Purge(reqs, t)) >= limit
    /\ TimeToWait(Purge(reqs, t), t) > 0

\* The part of acquire() that follows the timer without its second filter.
AfterWaitNoPurge(reqs, t) == Append(reqs, t)

\* The list after the part of acquire() that follows the timer: purged
\* again, the timestamp pushed.
AfterWait(reqs, t) == Append(Purge(reqs, t), t)

\* acquire() up to its first await, or to its end when it does not wait.
AcquireEntry(reqs, limit, t) ==
    IF MustWait(reqs, limit, t)
    THEN [requests |-> Purge(reqs, t), waits |-> TRUE,
          timeToWait |-> TimeToWait(Purge(reqs, t), t)]
    ELSE [requests |-> Append(Purge(reqs, t), t), waits |-> FALSE,
          timeToWait |-> 0]

\* The number of retained timestamps in the trailing window.
InWindowCount(reqs, t) == Len(Purge(reqs, t))

----------------------------------------------------------------------------
(* The tools and their inputs *)

Tasks == 1..MaxTasks
Tools == {"search", "content"}

TickMs == WindowMs \div TicksPerWindow
MaxTime == MaxTicks * TickMs

\* Both tools on the search limiter.
RateLimiterShared(tool) == "search"

\* The limiter a tool's perform function acquires.
RateLimiterOf(tool) == tool
StorageKey(tool) == IF tool = "search" THEN "searchRequests" ELSE "contentRequests"
StorageKeys == {StorageKey(tool) : tool \in Tools}

\* A tool argument: absent, or a string.
Arg(present, value) == [present |-> present, value |-> value]
Queries == {Arg(FALSE, <<>>), Arg(TRUE, <<>>), Arg(TRUE, <<"c", "a", "t">>)}
Urls == {Arg(FALSE, <<>>), Arg(TRUE, <<>>), Arg(TRUE, <<"https://a.example/">>)}
Inputs(tool) == IF tool = "search" THEN Queries ELSE Urls

\* z.string().url()
IsUrl(s) == s # <<>> /\ s[1] \in {"https://a.example/", "https://b.example/"}

\* The tool's zod schema: query: z.string(); url: z.string().url();
\* max_results: an integer in [1, 20].
SchemaAccepts(tool, arg, k) ==
    IF tool = "search"
    THEN arg.present /\ k \in 1..20
    ELSE arg.present /\ IsUrl(arg.value)

\* The pages the search engine answers with.
SearchPages == {<<Plain, Wrapped>>, <<Plain, BadEscape, Plain>>}

NoResult == [kind |-> "none", msg |-> ""]
\* What an invocation ends with: { content: [{ type: "text", text }] } with
\* the tool's output or with an error message, or an exception that leaves
\* the handler.  The text of a successful search is
\* formatSearchResultsForLLM(results); the system keeps only its kind.
TextResult == [kind |-> "text", msg |-> ""]
ErrorResult(msg) == [kind |-> "error", msg |-> msg]
Thrown(msg) == [kind |-> "thrown", msg |-> msg]
\* The tool layer's answer to arguments the schema refuses.
Rejected == [kind |-> "rejected", msg |-> "invalid arguments"]

Idle ==
    [pc |-> "idle", tool |-> "search", arg |-> Arg(FALSE, <<>>), k |-> 1,
     deadline |-> 0, waited |-> FALSE, sentAt |-> 0, fetches |-> 0,
     putOk |-> FALSE, res |-> NoResult]

\* A handler that lets the exception through.
HandlerRethrows(msg) == Thrown(msg)

\* catch (e) of the tool handlers
HandlerCatch(msg) == ErrorResult(msg)

\* catch (error) of performDuckDuckGoSearch and performWebContentFetch
PerformCatch(tool, name) ==
    IF name = "AbortError"
    THEN (IF tool = "search" THEN "Search request timed out."
          ELSE "The request timed out while trying to fetch the webpage.")
    ELSE (IF tool = "search" THEN "Error during search"
          ELSE "Error: Could not access the webpage")


----------------------------------------------------------------------------
(* performWebContentFetch: the web page and the extraction of its text *)

\* One top-level element of a page: its tag, its own text, and the tag and
\* text of an element nested in it ("" when there is none).
Node(tag, text, child, childText) ==
    [tag |-> tag, text |-> text, child |-> child, childText |-> childText]

Repeat(c, n) == [i \in 1..n |-> c]

\* "X" and "Y" occur only inside elements the extractor removes.
Para == Node("p", <<"a">>, "", <<>>)
Spaced ==
    Node("div", <<" ", "b", " ", " ", "c", "\r", "\n", "\n", "\t", "d", "\n">>,
         "", <<>>)
BlankNode == Node("div", <<" ", "\n">>, "", <<>>)
ScriptNode == Node("script", <<"X">>, "", <<>>)
NavNode == Node("nav", <<>>, "a", <<"Y">>)
Long == Node("p", Repeat("z", MAX_CONTENT_LENGTH), "", <<>>)

Nodes == {Para, Spaced, BlankNode, ScriptNode, NavNode, Long}
Pages == SeqsUpTo(Nodes, MaxNodes)

XEvent(type, tag, text) == [type |-> type, tag |-> tag, text |-> text]

NodeEvents(n) ==
    <<XEvent("open", n.tag, <<>>)>>
    \o (IF n.text # <<>> THEN <<XEvent("text", n.tag, n.text)>> ELSE <<>>)
    \o (IF n.child # ""
        THEN <<XEvent("open", n.child, <<>>), XEvent("text", n.child, n.childText),
               XEvent("close", n.child, <<>>)>>
        ELSE <<>>)
    \o <<XEvent("close", n.tag, <<>>)>>

RECURSIVE PageEvents(_)
PageEvents(p) ==
    IF p = <<>> THEN <<>> ELSE NodeEvents(Head(p)) \o PageEvents(Tail(p))

\* The selectors whose element handler calls element.remove().
RemovedTags == {"script", "style", "nav", "header", "footer"}

\* let extractedText = ""; removedDepth is the rewriter's own count of the
\* open elements that are removed or lie inside a removed one.
ExtractorInit ==
    [extractedText |-> <<>>, removedDepth |-> 0, cleanedText |-> <<>>,
     returned |-> <<>>, phase |-> "scan"]

\* A start tag: element.remove() for the five selectors.
OnElement(s, tag) ==
    IF s.removedDepth > 0 \/ tag \in RemovedTags
    THEN [s EXCEPT !.removedDepth = @ + 1]
    ELSE s

OnEndTag(s) ==
    IF s.removedDepth > 0 THEN [s EXCEPT !.removedDepth = @ - 1] ELSE s

\* The text handler of "*": extractedText += text.text.  Whether it is
\* called for text inside a removed element is the platform's choice.
OnText(s, text, hides) ==
    IF s.removedDepth > 0 /\ hides THEN s
    ELSE [s EXCEPT !.extractedText = @ \o text]

\* extractedText.split(/\r?\n/)
RECURSIVE SplitLines(_)
SplitLines(s) ==
    LET nl == {i \in 1..Len(s) : s[i] = "\n"}
    IN  IF nl = {} THEN <<s>>
        ELSE LET i == CHOOSE j \in nl : \A k \in nl : j <= k
                 end == IF i > 1 /\ s[i - 1] = "\r" THEN i - 2 ELSE i - 1
             IN  <<SubSeq(s, 1, end)>> \o SplitLines(SubSeq(s, i + 1, Len(s)))

\* lines.join(" ")
RECURSIVE Join(_)
Join(lines) ==
    IF lines = <<>> THEN <<>>
    ELSE IF Len(lines) = 1 THEN lines[1]
    ELSE lines[1] \o <<" ">> \o Join(Tail(lines))

\* text.replace(/\s+/g, " "): every run of white space becomes one space.
CollapseSpaces(s) ==
    LET marked == [i \in 1..Len(s) |->
                     [c |-> IF IsWhite(s[i]) THEN " " ELSE s[i],
                      keep |-> ~IsWhite(s[i]) \/ i = 1 \/ ~IsWhite(s[i - 1])]]
        kept == SelectSeq(marked, LAMBDA m : m.keep)
    IN  [i \in 1..Len(kept) |-> kept[i].c]

\* The clean-up of the extracted text: split into lines, trim each, drop
\* the empty ones, join with a space, collapse white space, trim.
CleanText(text) ==
    LET lines == SplitLines(text)
        trimmed == [i \in 1..Len(lines) |-> trim(lines[i])]
        nonEmpty == SelectSeq(trimmed, LAMBDA line : Len(line) > 0)
    IN  trim(CollapseSpaces(Join(nonEmpty)))

TruncationMarker == <<"... [content truncated]">>

\* The cut without the marker.
TruncateNoMarker(text) ==
    IF Len(text) > MAX_CONTENT_LENGTH
    THEN SubSeq(text, 1, MAX_CONTENT_LENGTH)
    ELSE text

\* if (cleanedText.length > MAX_CONTENT_LENGTH) ...
Truncate(text) ==
    IF Len(text) > MAX_CONTENT_LENGTH
    THEN SubSeq(text, 1, MAX_CONTENT_LENGTH) \o TruncationMarker
    ELSE text

ExtractIdle ==
    /\ webPage = <<>>
    /\ xIdx = 0
    /\ xs = ExtractorInit
    /\ removeHidesText = FALSE

XScanEnded == xIdx = Len(PageEvents(webPage))
XNextEvent == PageEvents(webPage)[xIdx + 1]

XDispatch(s, e, hides) ==
    CASE e.type = "open" -> OnElement(s, e.tag)
      [] e.type = "text" -> OnText(s, e.text, hides)
      [] e.type = "close" -> OnEndTag(s)

XDeliver(type) ==
    /\ xs.phase = "scan"
    /\ ~XScanEnded
    /\ XNextEvent.type = type
    /\ xs' = XDispatch(xs, XNextEvent, removeHidesText)
    /\ xIdx' = xIdx + 1
    /\ UNCHANGED <<webPage, removeHidesText, sysVars, parseVars, searchesVars>>

ElementOpened == XDeliver("open")
TextChunk == XDeliver("text")
ElementClosed == XDeliver("close")

\* The stream is through: the extracted text is cleaned up.
CleanUp ==
    /\ xs.phase = "scan"
    /\ XScanEnded
    /\ xs' = [xs EXCEPT !.cleanedText = CleanText(xs.extractedText),
                         !.phase = "cleaned"]
    /\ UNCHANGED <<webPage, xIdx, removeHidesText, sysVars, parseVars, searchesVars>>

\* The text is cut to MAX_CONTENT_LENGTH and returned.
ReturnContent ==
    /\ xs.phase = "cleaned"
    /\ xs' = [xs EXCEPT !.returned = Truncate(xs.cleanedText),
                         !.phase = "returned"]
    /\ UNCHANGED <<webPage, xIdx, removeHidesText, sysVars, parseVars, searchesVars>>

----------------------------------------------------------------------------
(* Several searches that parse their documents, one closure per call *)

Parsers == 1..MaxParsers

\* The documents the searches parse.
SearchDocs == {<<NoAnchor, Plain>>, <<Plain, Wrapped>>}

\* The max_results of the searches: the least and the largest.
SearchKs == {1, MaxK}

\* A call of performDuckDuckGoSearch: its document, its max_results, the
\* events its rewriter has delivered and the variables of its closure.
ParserCall(d, k, s, active) ==
    [html |-> d, k |-> k, evIdx |-> 0, ps |-> s, active |-> active]

SearchesIdle ==
    /\ parsers = [p \in Parsers |-> ParserCall(<<>>, 1, ParserInit, FALSE)]
    /\ parsed = <<>>

Parsing == {p \in Parsers : parsers[p].active}

\* A call that starts with the positionCounter of the call before it.
StartParseKeepsCounter(p, d, k) ==
    /\ ~parsers[p].active
    /\ Len(parsed) + Cardinality(Parsing) < MaxParses
    /\ parsers' = [parsers EXCEPT ![p] =
                     ParserCall(d, k,
                                [ParserInit EXCEPT !.positionCounter =
                                     parsers[p].ps.positionCounter],
                                TRUE)]
    /\ UNCHANGED <<parsed, sysVars, parseVars, extractVars>>

\* A search has its document: the call declares the variables of its
\* closure and builds its rewriter.
StartParse(p, d, k) ==
    /\ ~parsers[p].active
    /\ Len(parsed) + Cardinality(Parsing) < MaxParses
    /\ parsers' = [parsers EXCEPT ![p] = ParserCall(d, k, ParserInit, TRUE)]
    /\ UNCHANGED <<parsed, sysVars, parseVars, extractVars>>

ParseEnded(c) == c.ps.threw \/ c.evIdx = Len(Events(c.html))

\* The rewriter of one call delivers its next event.
ParseStep(p) ==
    /\ parsers[p].active
    /\ ~ParseEnded(parsers[p])
    /\ parsers' = [parsers EXCEPT ![p] =
                     [@ EXCEPT !.ps = Dispatch(@, Events(parsers[p].html)[parsers[p].evIdx + 1],
                                                 parsers[p].k),
                               !.evIdx = @ + 1]]
    /\ UNCHANGED <<parsed, sysVars, parseVars, extractVars>>

\* The transform of one call is through, or a handler has thrown: the call
\* returns its results, or throws.
EndParse(p) ==
    /\ parsers[p].active
    /\ ParseEnded(parsers[p])
    /\ parsed' = Append(parsed, [html |-> parsers[p].html, k |-> parsers[p].k,
                                 threw |-> parsers[p].ps.threw,
                                 results |-> IF parsers[p].ps.threw THEN <<>>
                                             ELSE parsers[p].ps.results])
    /\ parsers' = [parsers EXCEPT ![p] = [@ EXCEPT !.active = FALSE]]
    /\ UNCHANGED <<sysVars, parseVars, extractVars>>

----------------------------------------------------------------------------
(* The system: the Durable Object, its two limiters and its tool invocations *)

NoValue == [present |-> FALSE, list |-> <<>>]
Saved(list) == [present |-> TRUE, list |-> list]

SysInit ==
    /\ now = 0
    /\ requests = [l \in Limiters |-> <<>>]
    /\ storage = [key \in StorageKeys |-> NoValue]
    /\ loadPending = [key \in StorageKeys |-> TRUE]
    /\ inv = [t \in Tasks |-> Idle]
    /\ restarts = 0
    /\ calls = 0

ParseIdle ==
    /\ html = <<>>
    /\ max_results = 1
    /\ evIdx = 0
    /\ ps = ParserInit
    /\ output = <<>>

Init == SysInit /\ ParseIdle /\ ExtractIdle /\ SearchesIdle

\* Time passes.
Tick ==
    /\ now < MaxTime
    /\ now' = now + TickMs
    /\ UNCHANGED <<requests, storage, loadPending, inv, restarts, calls, parseVars, extractVars, searchesVars>>

\* The invocation after acquire() has returned at time t: the outbound
\* request is sent.
Sent(i, t) ==
    [i EXCEPT !.pc = "fetching", !.sentAt = t, !.fetches = @ + 1, !.deadline = 0]

\* The invocation whose handler has returned res: its locals are gone.
Finished(i, res) == [Idle EXCEPT !.pc = "done", !.tool = i.tool, !.arg = i.arg,
                                 !.fetches = i.fetches, !.res = res]

\* A tool call arrives.  Arguments the schema refuses never reach the
\* handler; otherwise the handler runs up to acquire()'s await, or, when
\* acquire() does not wait, up to the await of fetch().
Invoke(t, tool, arg, k) ==
    /\ inv[t].pc = "idle"
    /\ calls < MaxCalls
    /\ now + WindowMs <= MaxTime
    /\ calls' = calls + 1
    /\ LET l == RateLimiterOf(tool)
           a == AcquireEntry(requests[l], requestsPerMinute[l], now)
           i == [Idle EXCEPT !.tool = tool, !.arg = arg,
                             !.k = IF tool = "search" THEN k ELSE 1]
       IN  IF ~SchemaAccepts(tool, arg, k)
           THEN /\ inv' = [inv EXCEPT ![t] = Finished(i, Rejected)]
                /\ UNCHANGED requests
           ELSE /\ requests' = [requests EXCEPT ![l] = a.requests]
                /\ inv' = [inv EXCEPT ![t] =
                             IF a.waits
                             THEN [i EXCEPT !.pc = "waiting", !.waited = TRUE,
                                            !.deadline = now + a.timeToWait]
                             ELSE Sent(i, now)]
    /\ UNCHANGED <<now, storage, loadPending, restarts, parseVars, extractVars, searchesVars>>

\* setTimeout(resolve, timeToWait) fires: acquire() purges again, pushes and
\* returns, and the outbound request is sent.
Wake(t) ==
    /\ inv[t].pc = "waiting"
    /\ now >= inv[t].deadline
    /\ LET l == RateLimiterOf(inv[t].tool)
       IN  requests' = [requests EXCEPT ![l] = AfterWait(requests[l], now)]
    /\ inv' = [inv EXCEPT ![t] = Sent(inv[t], now)]
    /\ UNCHANGED <<now, storage, loadPending, restarts, calls, parseVars, extractVars, searchesVars>>

\* A failure that gives the slot back: the last timestamp leaves the list.
FailsRefund(t, msg) ==
    /\ inv' = [inv EXCEPT ![t] = Finished(@, HandlerCatch(msg))]
    /\ requests' = [requests EXCEPT ![RateLimiterOf(inv[t].tool)] =
                       IF @ = <<>> THEN @ ELSE SubSeq(@, 1, Len(@) - 1)]
    /\ UNCHANGED <<now, storage, loadPending, restarts, calls, parseVars, extractVars, searchesVars>>

\* A failure that sends the request once more before it gives up.
FailsRetry(t, msg) ==
    /\ inv' = [inv EXCEPT ![t] =
                 IF @.fetches < 2 THEN Sent(@, now)
                 ELSE Finished(@, HandlerCatch(msg))]
    /\ UNCHANGED <<now, requests, storage, loadPending, restarts, calls, parseVars, extractVars, searchesVars>>

\* The invocation ends with an exception of the perform function.
Fails(t, msg) ==
    /\ inv' = [inv EXCEPT ![t] = Finished(@, HandlerCatch(msg))]
    /\ UNCHANGED <<now, requests, storage, loadPending, restarts, calls, parseVars, extractVars, searchesVars>>

\* The handler's storage.put(key, getRequests()), then its await.
Put(t, putOk) ==
    /\ storage' = IF putOk
                  THEN [storage EXCEPT ![StorageKey(inv[t].tool)] =
                           Saved(requests[RateLimiterOf(inv[t].tool)])]
                  ELSE storage
    /\ inv' = [inv EXCEPT ![t] = [@ EXCEPT !.pc = "putting", !.putOk = putOk]]
    /\ UNCHANGED <<now, requests, loadPending, restarts, calls, parseVars, extractVars, searchesVars>>

\* The search engine answers 2xx: the page is parsed; a handler that
\* throws ends the search, otherwise the limiter's list is saved.
SearchFetchOk(t, page, putOk) ==
    /\ inv[t].pc = "fetching"
    /\ inv[t].tool = "search"
    /\ LET s == Transform(ParserInit, Events(page), inv[t].k)
       IN  IF s.threw
           THEN Fails(t, PerformCatch("search", "URIError"))
           ELSE Put(t, putOk)

\* The web page answers 2xx: its text is returned and the list saved.
ContentFetchOk(t, putOk) ==
    /\ inv[t].pc = "fetching"
    /\ inv[t].tool = "content"
    /\ Put(t, putOk)

\* The answer is not 2xx: throw new Error(`HTTP error! status: ...`).
FetchHttpError(t) ==
    /\ inv[t].pc = "fetching"
    /\ Fails(t, PerformCatch(inv[t].tool, "Error"))

\* fetch() rejects: no connection.
FetchNetworkError(t) ==
    /\ inv[t].pc = "fetching"
    /\ Fails(t, PerformCatch(inv[t].tool, "TypeError"))

\* setTimeout(() => controller.abort(), 30000) fires before the answer.
FetchAbort(t) ==
    /\ inv[t].pc = "fetching"
    /\ now - inv[t].sentAt >= RequestTimeoutMs
    /\ Fails(t, PerformCatch(inv[t].tool, "AbortError"))

\* await storage.put(...) settles: the handler returns its text, or its
\* catch returns the error.
PutDone(t) ==
    /\ inv[t].pc = "putting"
    /\ inv' = [inv EXCEPT ![t] =
                 Finished(@, IF inv[t].putOk THEN TextResult
                             ELSE HandlerCatch("storage.put failed"))]
    /\ UNCHANGED <<now, requests, storage, loadPending, restarts, calls, parseVars, extractVars, searchesVars>>

\* The caller has its answer; the slot is free again.
Return(t) ==
    /\ inv[t].pc = "done"
    /\ inv' = [inv EXCEPT ![t] = Idle]
    /\ UNCHANGED <<now, requests, storage, loadPending, restarts, calls, parseVars, extractVars, searchesVars>>

\* RateLimiter.setRequests
setRequests(reqs, saved) == saved

\* The constructor's storage.get(key).then(savedRequests => ...)
LoadDone(tool) ==
    /\ loadPending[StorageKey(tool)]
    /\ loadPending' = [loadPending EXCEPT ![StorageKey(tool)] = FALSE]
    /\ requests' = IF storage[StorageKey(tool)].present
                   THEN [requests EXCEPT ![RateLimiterOf(tool)] =
                            setRequests(@, storage[StorageKey(tool)].list)]
                   ELSE requests
    /\ UNCHANGED <<now, storage, inv, restarts, calls, parseVars, extractVars, searchesVars>>

\* The Durable Object is evicted and constructed again: the memory is
\* lost, the storage is kept, the invocations in flight are dropped.
Restart ==
    /\ restarts < MaxRestarts
    /\ restarts' = restarts + 1
    /\ requests' = [l \in Limiters |-> <<>>]
    /\ loadPending' = [key \in StorageKeys |-> TRUE]
    /\ inv' = [t \in Tasks |-> Idle]
    /\ UNCHANGED <<now, storage, calls, parseVars, extractVars, searchesVars>>

Next ==
    \/ Tick
    \/ \E t \in Tasks, tool \in Tools :
         \E arg \in Inputs(tool) : Invoke(t, tool, arg, MaxK)
    \/ \E t \in Tasks : Wake(t)
    \/ \E t \in Tasks, page \in SearchPages, putOk \in BOOLEAN :
         SearchFetchOk(t, page, putOk)
    \/ \E t \in Tasks, putOk \in BOOLEAN : ContentFetchOk(t, putOk)
    \/ \E t \in Tasks : FetchHttpError(t)
    \/ \E t \in Tasks : FetchNetworkError(t)
    \/ \E t \in Tasks : FetchAbort(t)
    \/ \E t \in Tasks : PutDone(t)
    \/ \E t \in Tasks : Return(t)
    \/ \E tool \in Tools : LoadDone(tool)
    \/ Restart

Spec == Init /\ [][Next]_vars

----------------------------------------------------------------------------
(* The parser on its own: one document, event by event *)

ParseInit ==
    /\ SysInit
    /\ html \in Documents
    /\ max_results \in 1..MaxK
    /\ evIdx = 0
    /\ ps = ParserInit
    /\ output = <<>>
    /\ ExtractIdle
    /\ SearchesIdle

ParseNext ==
    \/ ResultElement
    \/ TitleElement
    \/ TitleText
    \/ TitleEnd
    \/ SnippetElement
    \/ SnippetText
    \/ SnippetEnd
    \/ ResultEnd
    \/ FormatResults
    \/ SearchCatch

ParseSpec == ParseInit /\ [][ParseNext]_vars

----------------------------------------------------------------------------
(* The searches that parse together, on their own *)

SearchesInit ==
    /\ SysInit
    /\ ParseIdle
    /\ ExtractIdle
    /\ SearchesIdle

SearchesNext ==
    \/ \E p \in Parsers, d \in SearchDocs, k \in SearchKs : StartParse(p, d, k)
    \/ \E p \in Parsers : ParseStep(p)
    \/ \E p \in Parsers : EndParse(p)

SearchesSpec == SearchesInit /\ [][SearchesNext]_vars

----------------------------------------------------------------------------
(* The content extractor on its own: one page, event by event *)

ExtractInit ==
    /\ SysInit
    /\ ParseIdle
    /\ webPage \in Pages
    /\ removeHidesText \in BOOLEAN
    /\ xIdx = 0
    /\ xs = ExtractorInit
    /\ SearchesIdle

ExtractNext ==
    \/ ElementOpened
    \/ TextChunk
    \/ ElementClosed
    \/ CleanUp
    \/ ReturnContent

ExtractSpec == ExtractInit /\ [][ExtractNext]_vars


\* The system with a clock that keeps advancing and timers that fire.
FairSpec ==
    /\ Spec
    /\ WF_vars(Tick)
    /\ \A t \in Tasks : WF_vars(Wake(t))

----------------------------------------------------------------------------
(* Steps of an invocation, as action formulas *)

\* In this step the acquire() call of invocation t returns.
AcquireReturns(t) ==
    /\ inv[t].pc \in {"idle", "waiting"}
    /\ inv'[t].pc = "fetching"

\* In this step invocation t calls acquire().
AcquireCalled(t) ==
    /\ inv[t].pc = "idle"
    /\ inv'[t].pc \in {"waiting", "fetching"}

\* In this step the acquire() call of invocation t suspends.
AcquireSuspends(t) ==
    /\ inv[t].pc = "idle"
    /\ inv'[t].pc = "waiting"

Range(reqs) == {reqs[i] : i \in 1..Len(reqs)}
Oldest(reqs) == CHOOSE x \in Range(reqs) : \A y \in Range(reqs) : x <= y
Last(reqs) == reqs[Len(reqs)]
OtherLimiter(l) == IF l = "search" THEN "content" ELSE "search"

----------------------------------------------------------------------------
(* The claims about the RateLimiter *)

\* C1: whenever an acquire() call has just returned, the limiter's list
\* holds at most requestsPerMinute timestamps of the trailing 60,000 ms.
\* The code violates it: two callers suspended on the same full window
\* wake together, and each pushes without checking the count again.
C1_WindowBoundAfterAcquire ==
    [][\A t \in Tasks :
         AcquireReturns(t) =>
            LET l == RateLimiterOf(inv'[t].tool)
            IN  InWindowCount(requests'[l], now') <= requestsPerMinute[l]]_vars

\* C2: an acquire() that finds fewer than N timestamps retained, as each of
\* the first N calls on an empty limiter does, returns without suspending;
\* one that finds N timestamps in the window suspends, and returns no
\* earlier than 60,000 ms after the oldest timestamp it retained.
C2_SuspendsOnlyWhenFull ==
    [][\A t \in Tasks :
         LET l == RateLimiterOf(inv'[t].tool)
             N == requestsPerMinute[l]
         IN  /\ AcquireCalled(t) /\ Len(requests[l]) < N =>
                  /\ inv'[t].pc = "fetching"
                  /\ ~inv'[t].waited
             /\ AcquireCalled(t) /\ InWindowCount(requests[l], now) >= N =>
                  /\ inv'[t].pc = "waiting"
                  /\ inv'[t].deadline >= Oldest(requests'[l]) + WindowMs
             /\ AcquireReturns(t) /\ inv[t].pc = "waiting" =>
                  now' >= inv[t].deadline]_vars

\* A call has suspended on a full window of the search limiter and has
\* returned, a window after the oldest timestamp.
C2_Witness ==
    \E t \in Tasks :
        /\ inv[t].pc = "fetching"
        /\ inv[t].tool = "search"
        /\ inv[t].waited
        /\ inv[t].sentAt >= WindowMs

\* C3: with the clock advancing and the timers firing, every suspended
\* acquire() returns (unless the Durable Object is destroyed first), and an
\* acquire() that returns has pushed exactly one timestamp, the current
\* time, onto the purged list; one that suspends has pushed none.
C3_AcquireAlwaysReturns ==
    /\ [][\A t \in Tasks :
            LET l == RateLimiterOf(inv'[t].tool)
            IN  /\ AcquireReturns(t) =>
                     /\ Len(requests'[l]) = InWindowCount(requests[l], now') + 1
                     /\ Last(requests'[l]) = now'
                     /\ SubSeq(requests'[l], 1, Len(requests'[l]) - 1)
                          = Purge(requests[l], now')
                /\ AcquireSuspends(t) => requests'[l] = Purge(requests[l], now')]_vars
    /\ \A t \in Tasks, r \in 0..MaxRestarts :
          (inv[t].pc = "waiting" /\ restarts = r)
             ~> (inv[t].pc = "fetching" \/ restarts # r)

\* Two calls were suspended together and one of them has returned, its
\* timestamp the last of the list.
C3_Witness ==
    \E t, u \in Tasks :
        /\ t # u
        /\ inv[t].pc = "fetching" /\ inv[t].waited
        /\ inv[u].pc = "waiting"
        /\ inv[u].tool = inv[t].tool
        /\ Last(requests[RateLimiterOf(inv[t].tool)]) = inv[t].sentAt

\* C4: the search limiter and the fetch limiter share no state: a step of
\* an invocation of one tool, or the load of one tool's saved list, leaves
\* the other limiter's list as it is, and an acquire() suspends only when
\* its own limiter's window is full.  (The limiters are named after their
\* tools.)
C4_LimitersIndependent ==
    [][/\ \A t \in Tasks :
            inv'[t] # inv[t] /\ restarts' = restarts =>
               LET l == inv'[t].tool
               IN  /\ requests'[OtherLimiter(l)] = requests[OtherLimiter(l)]
                   /\ AcquireSuspends(t) =>
                        InWindowCount(requests[l], now) >= requestsPerMinute[l]
       /\ \A tool \in Tools :
            loadPending[StorageKey(tool)] /\ ~loadPending'[StorageKey(tool)]
            /\ restarts' = restarts =>
               requests'[OtherLimiter(tool)] = requests[OtherLimiter(tool)]]_vars

\* The fetch limiter's window is full and a search call has just gone
\* through without waiting.
C4_Witness ==
    \E t \in Tasks :
        /\ inv[t].pc = "fetching" /\ inv[t].tool = "search" /\ ~inv[t].waited
        /\ inv[t].sentAt = now
        /\ InWindowCount(requests["content"], now) >= requestsPerMinute["content"]
        /\ requests["search"] # requests["content"]


----------------------------------------------------------------------------
(* The claims about the parser *)

\* The containers of a document that are scanned to their end after the
\* first n events.
Scanned(n) ==
    Cardinality({i \in 1..n : Events(html)[i].type = "result_end"})

\* A result without its position.
Fields(r) == [title |-> r.title, link |-> r.link, snippet |-> r.snippet]
FieldsOf(results) == [i \in 1..Len(results) |-> Fields(results[i])]

Take(s, n) == SubSeq(s, 1, IF n < Len(s) THEN n ELSE Len(s))

\* The destination a container links to.
Destination(c) == UnwrappedLink(c.href)

\* A container the parser accepts: it has an anchor with a destination that
\* is no ad, a title and a snippet.
Accepted(c) ==
    /\ c.anchor
    /\ Destination(c) # <<>>
    /\ ~includes(Destination(c), "y.js")
    /\ c.title # <<>>
    /\ c.snip
    /\ c.snippet # <<>>

\* The accepted containers of a document, in document order.
RECURSIVE AcceptedOf(_)
AcceptedOf(d) ==
    IF d = <<>> THEN <<>>
    ELSE (IF Accepted(Head(d))
          THEN <<[title |-> trim(Head(d).title), link |-> Destination(Head(d)),
                  snippet |-> trim(Head(d).snippet)]>>
          ELSE <<>>)
         \o AcceptedOf(Tail(d))

\* A document without the containers whose redirect parameter does not decode.
Decodable(d) == SelectSeq(d, LAMBDA c : ~UnwrapThrows(c.href))

\* C5: the positions of the results of one search are 1..m in order, with
\* no gaps: a skipped container consumes no position number.  The code
\* violates it: positionCounter counts every container, skipped or not.
C5_PositionsContiguous ==
    \A i \in 1..Len(ps.results) : ps.results[i].position = i

\* C6: at every point of the scan the parser holds at most max_results
\* results, and they are the first accepted containers, in document order,
\* of the part of the document scanned so far.
C6_AtMostKFirstAccepted ==
    /\ Len(ps.results) <= max_results
    /\ ~ps.threw =>
         FieldsOf(ps.results)
           = Take(AcceptedOf(SubSeq(html, 1, Scanned(evIdx))), max_results)

\* The scan of a document with more accepted containers than max_results
\* has ended.
C6_Witness ==
    /\ ScanEnded
    /\ ~ps.threw
    /\ Len(AcceptedOf(html)) > max_results
    /\ Len(ps.results) = max_results

\* C7: no result links to the ad-tracking segment "y.js", be it in the raw
\* href or in the destination decoded from a redirect wrapper.
C7_NoAdLinks ==
    \A i \in 1..Len(ps.results) : ~includes(ps.results[i].link, "y.js")

\* The scan of a document with a raw ad, a wrapped ad and a result that is
\* no ad has ended.
C7_Witness ==
    /\ ScanEnded
    /\ ~ps.threw
    /\ \E i, j \in 1..Len(html) : html[i] = AdRaw /\ html[j] = AdWrapped
    /\ ps.results # <<>>

\* C8: redirect-wrapped links appear decoded, and a redirect parameter that
\* does not decode drops its container only: the parse goes on and ends
\* with the accepted containers of the rest of the document.  The code
\* violates it: decodeURIComponent throws in the end handler, which ends
\* the transform, and the search returns an error.
C8_DecodeFailureDropsOnlyContainer ==
    /\ ~ps.threw
    /\ \A i \in 1..Len(ps.results) : ~startsWithRedirect(ps.results[i].link)
    /\ ScanEnded =>
         FieldsOf(ps.results) = Take(AcceptedOf(Decodable(html)), max_results)

----------------------------------------------------------------------------
(* The claims about the tool handlers *)

\* In this step the handler of invocation t returns or throws.
HandlerEnds(t) == inv[t].pc \in {"waiting", "fetching", "putting"} /\ inv'[t].pc = "done"

\* C9: the tool handlers never throw: every invocation the handler ends
\* returns one text result, and when the request, the parse or the save
\* failed, that text is an error message.
C9_HandlersNeverThrow ==
    [][\A t \in Tasks :
         HandlerEnds(t) =>
            /\ inv'[t].res.kind \in {"text", "error"}
            /\ inv[t].pc = "fetching" =>
                 inv'[t].res.kind = "error" /\ inv'[t].res.msg # ""
            /\ inv[t].pc = "putting" =>
                 inv'[t].res.kind = (IF inv[t].putOk THEN "text" ELSE "error")]_vars

\* Two invocations have ended, one with its text and one with an error
\* message after its outbound request was sent.
C9_Witness ==
    \E t, u \in Tasks :
        /\ inv[t].pc = "done" /\ inv[t].res.kind = "text"
        /\ inv[u].pc = "done" /\ inv[u].res.kind = "error" /\ inv[u].fetches = 1

\* Whether a required input is missing or empty.
EmptyInput(arg) == ~arg.present \/ arg.value = <<>>

\* C10: an invocation whose required input is missing or empty ends at once
\* with an error string, and sends no outbound request.  The code violates
\* it: z.string() accepts the empty query, and the handler acquires a slot
\* and posts the empty query to the search engine.
C10_EmptyInputNoRequest ==
    \A t \in Tasks :
        inv[t].pc # "idle" /\ EmptyInput(inv[t].arg) =>
            /\ inv[t].pc = "done"
            /\ inv[t].fetches = 0
            /\ inv[t].res.kind \in {"error", "rejected"}

----------------------------------------------------------------------------
(* The claims about the content extractor *)

\* The characters of the pages that occur only inside removed elements.
RemovedMarks == {"X", "Y"}

\* C11: the text the extractor collects and returns never holds text from
\* inside a script, style, nav, header or footer element, the text of
\* elements nested in one included.  The code does not see to it: its
\* text handler takes every chunk it is called with, and whether it is
\* called inside a removed element is left to the platform.
C11_NoRemovedText ==
    /\ \A i \in 1..Len(xs.extractedText) : xs.extractedText[i] \notin RemovedMarks
    /\ \A i \in 1..Len(xs.returned) : xs.returned[i] \notin RemovedMarks

\* C12: when the cleaned text is empty the extractor returns a sentence
\* saying so, never the empty string.  The code violates it: it returns
\* cleanedText as it is.
C12_EmptyTextSentinel ==
    xs.phase = "returned" /\ xs.cleanedText = <<>> => xs.returned # <<>>

\* C13: a cleaned text of more than MAX_CONTENT_LENGTH characters is
\* returned as its first MAX_CONTENT_LENGTH characters followed by the
\* truncation marker; a text of at most MAX_CONTENT_LENGTH characters is
\* returned as it is.
C13_TruncationBoundary ==
    xs.phase = "returned" =>
        LET c == xs.cleanedText
            r == xs.returned
        IN  IF Len(c) > MAX_CONTENT_LENGTH
            THEN /\ Len(r) = MAX_CONTENT_LENGTH + 1
                 /\ \A i \in 1..MAX_CONTENT_LENGTH : r[i] = c[i]
                 /\ r[MAX_CONTENT_LENGTH + 1] = "... [content truncated]"
            ELSE r = c

\* A text of more than MAX_CONTENT_LENGTH characters has been returned.
C13_Witness ==
    /\ xs.phase = "returned"
    /\ Len(xs.cleanedText) > MAX_CONTENT_LENGTH

----------------------------------------------------------------------------
(* The claims about the formatter and about the containers the parser skips *)

\* C14: the formatter returns the "no results" message if and only if the
\* list is empty; otherwise it returns a header with the number of results
\* and then, for each result in the order of the list, one block of four
\* lines: position and title, the URL line, the summary line, an empty line.
C14_FormatShape ==
    output # <<>> /\ ~ps.threw =>
        LET r == ps.results
            n == Len(r)
        IN  /\ (output[1].kind = "no_results") <=> (n = 0)
            /\ n = 0 => Len(output) = 1
            /\ n > 0 =>
                 /\ Len(output) = 1 + 4 * n
                 /\ output[1].kind = "found" /\ output[1].n = n
                 /\ \A i \in 1..n :
                      /\ output[4 * i - 2] =
                            [kind |-> "title", n |-> r[i].position, text |-> r[i].title]
                      /\ output[4 * i - 1].kind = "url"
                      /\ output[4 * i - 1].text = r[i].link
                      /\ output[4 * i].kind = "summary"
                      /\ output[4 * i].text = r[i].snippet
                      /\ output[4 * i + 1].kind = "blank"

\* Three results have been formatted.
C14_Witness == output # <<>> /\ ~ps.threw /\ Len(ps.results) = 3

\* The text of a container's snippet block, "" when it has none.
RawSnippet(c) == IF c.snip THEN c.snippet ELSE <<>>

\* A container with a title and a link the parser can return.
ValidTitleLink(c) ==
    /\ c.anchor
    /\ trim(c.title) # <<>>
    /\ ~UnwrapThrows(c.href)
    /\ Destination(c) # <<>>
    /\ ~includes(Destination(c), "y.js")

\* The results that come from the container at index i of the document.
ResultsAt(i) == {j \in 1..Len(ps.results) : ps.results[j].position = i}

\* C16, as stated: a container with a valid title and link and an empty
\* snippet is accepted, with the snippet "".
C16_EmptySnippetAccepted ==
    ScanEnded /\ ~ps.threw /\ Len(html) <= max_results =>
        \A i \in 1..Len(html) :
            ValidTitleLink(html[i]) /\ trim(RawSnippet(html[i])) = <<>> =>
                \E j \in ResultsAt(i) : ps.results[j].snippet = <<>>

\* C16, amended: a container with a valid title and link whose snippet
\* block is absent or has no text is skipped: it adds no result.
C16_EmptySnippetSkipped ==
    \A i \in 1..Len(html) :
        ValidTitleLink(html[i]) /\ RawSnippet(html[i]) = <<>> => ResultsAt(i) = {}

\* The scan of a document has ended that holds a container with title and
\* link and no snippet, and a container that was accepted.
C16_Witness ==
    /\ ScanEnded
    /\ ~ps.threw
    /\ \E i \in 1..Len(html) :
         ValidTitleLink(html[i]) /\ RawSnippet(html[i]) = <<>>
    /\ ps.results # <<>>

\* C17: every returned result has a title and a link that are not empty; a
\* container whose title is empty or white space only is skipped.  The code
\* violates it: the title is tested before it is trimmed, so a title of
\* white space passes the test and is returned as "".
C17_TitleAndLinkNonEmpty ==
    \A j \in 1..Len(ps.results) :
        ps.results[j].title # <<>> /\ ps.results[j].link # <<>>

\* C18: a container without a title anchor is skipped, the parse goes on,
\* and nothing of another container shows in a result: every result has the
\* title, link and snippet of the one container it stands for, the fields
\* are empty again after every container start; a document without
\* containers gives no result and the "no results" message, not an error.
C18_SkipWithoutLeak ==
    /\ \A j \in 1..Len(ps.results) :
         LET r == ps.results[j]
             c == html[r.position]
         IN  /\ c.anchor
             /\ r.title = trim(c.title)
             /\ r.link = Destination(c)
             /\ r.snippet = trim(RawSnippet(c))
    /\ evIdx > 0 /\ Events(html)[evIdx].type = "result" =>
         ps.currentTitle = <<>> /\ ps.currentLink = <<>> /\ ps.currentSnippet = <<>>
    /\ (\A i \in 1..Len(html) : ~UnwrapThrows(html[i].href)) => ~ps.threw
    /\ html = <<>> /\ output # <<>> =>
         ps.results = <<>> /\ output = <<Line("no_results", 0, <<>>)>>

\* The scan has ended of a document with a container without anchor
\* between two accepted containers, both returned.
C18_Witness ==
    /\ ScanEnded
    /\ ~ps.threw
    /\ Len(html) = 3
    /\ Accepted(html[1]) /\ ~html[2].anchor /\ Accepted(html[3])
    /\ Len(ps.results) = 2

----------------------------------------------------------------------------
(* The claims about the slot of an invocation *)

\* C15: the purge, the test and the push of acquire() are one critical
\* section per limiter: between a caller's test of the window and that
\* caller's own push no other caller pushes on the same limiter.  The code
\* violates it: a caller that finds the window full awaits its timer
\* between the test and the push, and other callers push meanwhile.
C15_AcquireCriticalSection ==
    [][\A t, u \in Tasks :
         ~ /\ t # u
           /\ inv[t].pc = "waiting"
           /\ inv'[t].pc = "waiting"
           /\ AcquireReturns(u)
           /\ inv'[u].tool = inv[t].tool]_vars

\* How often the timestamp x occurs in a list.
Occurrences(reqs, x) == Cardinality({i \in 1..Len(reqs) : reqs[i] = x})

\* In this step the constructor runs or its load of the saved list lands.
Reloads == restarts' # restarts \/ loadPending' # loadPending

\* In this step the outbound request of invocation t ends, in any way.
RequestEnds(t) == inv[t].pc = "fetching" /\ inv'[t].pc \in {"putting", "done"}

\* C19: the slot of an invocation is not given back when its request fails
\* or times out: whatever the outcome of the request, the limiter's list
\* is left as it is, and no timestamp of the trailing window leaves a list
\* in any step of an invocation.
C19_SlotNotRefunded ==
    [][/\ \A t \in Tasks : RequestEnds(t) => requests' = requests
       /\ ~Reloads =>
            \A l \in Limiters : \A x \in Range(requests[l]) :
                InWindow(now', x) =>
                    Occurrences(requests'[l], x) >= Occurrences(requests[l], x)]_vars

\* An invocation has ended with an error after its request was sent, and
\* the window of its limiter is still full.
C19_Witness ==
    \E t \in Tasks :
        /\ inv[t].pc = "done"
        /\ inv[t].res.kind = "error"
        /\ inv[t].fetches = 1
        /\ InWindowCount(requests[inv[t].tool], now) >= requestsPerMinute[inv[t].tool]

\* C20: nothing is retried: an invocation sends at most one outbound
\* request, and sends it in the step in which its one acquire() returns;
\* after that it never waits or sends again; every acquire() that returns
\* pushes one timestamp; the invocation ends with one answer, a result
\* text or an error message.
C20_NoRetry ==
    [][\A t \in Tasks :
         /\ inv'[t].fetches <= 1
         /\ inv'[t].fetches # inv[t].fetches /\ inv'[t].pc # "idle" =>
              AcquireReturns(t) /\ inv[t].fetches = 0
         /\ inv[t].pc \in {"fetching", "putting", "done"} =>
              /\ inv'[t].pc # "waiting"
              /\ inv'[t].pc = "fetching" => inv'[t] = inv[t]
         /\ AcquireReturns(t) =>
              LET l == inv'[t].tool
              IN  /\ Len(requests'[l]) = Len(Purge(requests[l], now)) + 1
                  /\ Last(requests'[l]) = now
         /\ inv'[t].pc = "done" =>
              /\ inv'[t].res.kind \in {"text", "error", "rejected"}
              /\ inv'[t].res.kind = "text" =>
                   inv'[t].res.msg = "" /\ inv'[t].fetches = 1
              /\ inv'[t].res.kind = "error" => inv'[t].res.msg # ""
              /\ inv'[t].res.kind = "rejected" => inv'[t].fetches = 0]_vars

\* An invocation whose request timed out has ended with the error message,
\* after one request.
C20_Witness ==
    \E t \in Tasks :
        /\ inv[t].pc = "done"
        /\ inv[t].res = ErrorResult(PerformCatch(inv[t].tool, "AbortError"))
        /\ inv[t].fetches = 1

----------------------------------------------------------------------------
(* The claims about the delay, the saved list and its load *)

\* The timestamps of a list that lie in the window that ends at t.
Live(reqs, t) == {x \in Range(reqs) : t - x < WindowMs}

\* C21: an acquire() that finds the window full suspends for exactly the
\* time until the oldest timestamp of the window expires,
\* 60,000 - (now - oldest), which is more than 0 and at most 60,000 ms,
\* whatever list the limiter holds, a list loaded from the storage included.
C21_WaitWithinOneWindow ==
    [][\A t \in Tasks :
         AcquireSuspends(t) =>
            LET live == Live(requests[inv'[t].tool], now)
                wait == inv'[t].deadline - now
            IN  /\ live # {}
                /\ \E oldest \in live :
                     /\ \A x \in live : oldest <= x
                     /\ wait = WindowMs - (now - oldest)
                /\ wait > 0
                /\ wait <= WindowMs]_vars

\* After a restart an acquire() is suspended on the list the constructor
\* loaded from the storage, until the oldest timestamp of that list expires.
C21_Witness ==
    \E t \in Tasks :
        LET key == StorageKey(inv[t].tool)
            l == inv[t].tool
        IN  /\ inv[t].pc = "waiting"
            /\ restarts >= 1
            /\ ~loadPending[key]
            /\ storage[key].present
            /\ requests[l] # <<>>
            /\ requests[l] = storage[key].list
            /\ inv[t].deadline = Oldest(requests[l]) + WindowMs

\* C22: parsing carries no state from one call to another: two parses of
\* the same document with the same max_results, whatever other parses ran
\* before, between or together with them, return the same results in the
\* same order with the same positions, or both throw.
C22_ParseIdempotent ==
    \A i, j \in 1..Len(parsed) :
        parsed[i].html = parsed[j].html /\ parsed[i].k = parsed[j].k =>
            /\ parsed[i].threw = parsed[j].threw
            /\ parsed[i].results = parsed[j].results

\* One document has been parsed twice, each time with a result, and
\* another document has been parsed in between.
C22_Witness ==
    /\ Len(parsed) = 3
    /\ parsed[1].html = parsed[3].html
    /\ parsed[1].k = parsed[3].k
    /\ parsed[2].html # parsed[1].html
    /\ parsed[1].results # <<>>
    /\ parsed[2].results # <<>>

\* C23: the saved list follows the list in memory: when an invocation has
\* returned, with its result or with an error, the list saved under the key
\* of its tool holds the timestamp its acquire() pushed.  The code violates
\* it: the handler saves the list only after the perform function has
\* returned; when that throws, the catch returns and nothing is saved.
C23_SavedListFollowsMemory ==
    [][\A t \in Tasks :
         HandlerEnds(t) /\ inv[t].fetches = 1 =>
            LET key == StorageKey(inv[t].tool)
            IN  /\ storage'[key].present
                /\ inv[t].sentAt \in Range(storage'[key].list)]_vars

\* In this step the constructor's load of the list of a tool lands.
LoadLands(tool) == loadPending[StorageKey(tool)] /\ ~loadPending'[StorageKey(tool)]

\* C24: the load of the saved list at construction loses no slot: however
\* it interleaves with the acquire() calls on the new instance, every
\* timestamp of the window that was pushed before the load landed is in
\* the list after it, and the list then holds at most requestsPerMinute
\* timestamps of the trailing window.  The code violates it: setRequests
\* puts the saved list in the place of the list in memory.
C24_LoadKeepsSlots ==
    [][\A tool \in Tools :
         LoadLands(tool) =>
            /\ \A x \in Live(requests[tool], now) :
                 Occurrences(requests'[tool], x) >= Occurrences(requests[tool], x)
            /\ InWindowCount(requests'[tool], now) <= requestsPerMinute[tool]]_vars

=============================================================================
